---- MODULE Spec2Model ----
(***************************************************************************)
(* Model of app.py: the RouteService graph store (load_graph and the two   *)
(* download methods), the memoised nearest-node lookup, the route finder,  *)
(* the POST /shortest-path handler and the periodic refresher thread.      *)
(*                                                                         *)
(* Threads: the main thread (module import: RouteService(), then serving), *)
(* the refresher thread (periodic_graph_update) and one request handler    *)
(* thread that serves requests one after another.  Library calls (osmnx,   *)
(* networkx, folium, pickle) are atomic steps; the handler re-reads        *)
(* route_service.graph at every step, as the code does.                    *)
(***************************************************************************)
EXTENDS Integers, Sequences, FiniteSets, TLC

\* ---------------------------------------------------------------- bounds
\* number of requests the handler thread serves
MaxRequests == 2
\* the oldest age, in ticks of one update interval, the clock tells apart
\* (at least 2: a graph is stale when it is more than one interval old)
MaxTicks == 2
\* capacity of the nearest-node memo table; app.py:132 sets 1000, the model
\* scales it down so that eviction happens with the coordinates of Coords
maxsize == 1

\* ------------------------------------------------------ program constants
update_interval == 24 * 60 * 60
DefaultSpeed == 30
\* seconds per clock tick of the model
TickSeconds == update_interval

\* marker of an attribute that is not in an edge's data dict
NoAttr == -1
\* marker of "no node" / None for node-valued fields
NoNode == 0
\* self.last_update = None
NoTime == -1

\* ------------------------------------------------------------ graph values
\* self.graph = None
NoGraph == [tag |-> "none"]
\* the cache file does not exist / holds bytes pickle.load rejects
FileAbsent == [tag |-> "absent"]
FileCorrupt == [tag |-> "corrupt"]

\* maxspeed as OSM delivers it: absent, a string, or a list of strings.
\* A string is described by its leading whitespace-separated token: v is the
\* token's numeric value (NoAttr when the token is not a number) and multi
\* says that more tokens follow ("40 mph").  kind "float" is a value the
\* annotation loop has already normalised.
MsAbsent == [kind |-> "absent", v |-> NoAttr, multi |-> FALSE]
MsStr(v, multi) == [kind |-> "str", v |-> v, multi |-> multi]
MsList(v, multi) == [kind |-> "list", v |-> v, multi |-> multi]
MsFloat(v) == [kind |-> "float", v |-> v, multi |-> FALSE]

RawEdge(u, v, k, len, ms) ==
    [u |-> u, v |-> v, key |-> k, length |-> len, maxspeed |-> ms,
     travel_time |-> NoAttr]

\* What graph_from_place can return: the road network of the place, once
\* with clean speed tags and once with a tag the annotation loop rejects
\* (a list whose first element is "40 mph").  Node 3 is a dead end.
PlaceNodes == (1 :> <<0, 0>>) @@ (2 :> <<3, 0>>) @@ (3 :> <<6, 0>>)
PlaceGood ==
    [tag |-> "graph", nodes |-> PlaceNodes,
     edges |-> << RawEdge(1, 2, 0, 500, MsAbsent),
                  RawEdge(1, 2, 1, 250, MsStr(50, FALSE)),
                  RawEdge(2, 3, 0, 250, MsList(30, FALSE)) >>]
PlaceBad ==
    [tag |-> "graph", nodes |-> PlaceNodes,
     edges |-> << RawEdge(1, 2, 0, 500, MsAbsent),
                  RawEdge(1, 2, 1, 250, MsStr(50, FALSE)),
                  RawEdge(2, 3, 0, 250, MsList(40, TRUE)) >>]
PlaceGraphs == {PlaceGood, PlaceBad}

\* What graph_from_bbox can return: the fixed box cuts node 3 off and holds
\* node 4, which the place graph does not have.
BboxNodes == (1 :> <<0, 0>>) @@ (2 :> <<3, 0>>) @@ (4 :> <<1, 0>>)
BboxGood ==
    [tag |-> "graph", nodes |-> BboxNodes,
     edges |-> << RawEdge(4, 1, 0, 250, MsAbsent),
                  RawEdge(1, 2, 0, 1000, MsStr(40, TRUE)) >>]
BboxGraphs == {BboxGood}

\* (lat, lng) pairs a client sends; OceanCoord is far from every node
OceanCoord == <<20, 0>>
Coords == {<<1, 0>>, OceanCoord}

\* ------------------------------------------------- edge annotation (pure)
\* float(s) of a whole string: succeeds only when the string is one number
FloatOfWholeOK(ms) == ms.v # NoAttr /\ ~ms.multi
\* float(s.split()[0]): succeeds when the leading token is a number
FloatOfFirstTokenOK(ms) == ms.v # NoAttr

\* travel time in seconds; the lengths and speeds of the catalogue divide
\* exactly, so integer division is the float division of the code
TravelTime(length, speed) == (length * 3600) \div (speed * 1000)

\* One iteration of the annotation loop on edge data e: the data dict after
\* the iteration and whether the iteration raised.
AnnotateEdge(e) ==
    LET m0 == IF e.maxspeed.kind = "absent" THEN MsFloat(DefaultSpeed)
              ELSE e.maxspeed
        e0 == [e EXCEPT !.maxspeed = m0]
    IN  IF m0.kind = "list" /\ ~FloatOfWholeOK(m0)
          THEN [ok |-> FALSE, edge |-> e0]
        ELSE IF m0.kind = "str" /\ ~FloatOfFirstTokenOK(m0)
          THEN [ok |-> FALSE, edge |-> e0]
        ELSE LET e1 == [e0 EXCEPT !.maxspeed = MsFloat(m0.v)]
             IN  IF m0.v = 0
                   THEN [ok |-> FALSE, edge |-> e1]
                   ELSE [ok |-> TRUE,
                         edge |-> [e1 EXCEPT
                            !.travel_time = TravelTime(e.length, m0.v)]]

\* the graph a completed, successful annotation loop leaves
RECURSIVE AnnotateFrom(_, _)
AnnotateFrom(g, i) ==
    IF i > Len(g.edges) THEN g
    ELSE AnnotateFrom([g EXCEPT !.edges[i] = AnnotateEdge(g.edges[i]).edge],
                      i + 1)
FullyAnnotated(g) == AnnotateFrom(g, 1)

\* ------------------------------------------- library calls on a graph value
IsGraph(g) == g.tag = "graph"
Nodes(g) == DOMAIN g.nodes
\* `not self.graph`: None, or a graph without nodes (len(G) == 0)
Falsy(g) == ~IsGraph(g) \/ Nodes(g) = {}

SqDist(p, q) == (p[1] - q[1]) * (p[1] - q[1]) + (p[2] - q[2]) * (p[2] - q[2])

\* variant: a search that gives up on points far from every node
NearestNodeWithin(g, c) ==
    LET near == {n \in Nodes(g) : SqDist(g.nodes[n], c) <= 25}
    IN  IF near = {} THEN NoNode
        ELSE CHOOSE n \in near :
                 \A m \in near : SqDist(g.nodes[n], c) <= SqDist(g.nodes[m], c)

\* ox.nearest_nodes(G, lng, lat) on a graph with nodes: the node closest to
\* the point, the lowest id among equally close ones
NearestNode(g, c) ==
    CHOOSE n \in Nodes(g) :
        \A m \in Nodes(g) :
            \/ SqDist(g.nodes[n], c) < SqDist(g.nodes[m], c)
            \/ SqDist(g.nodes[n], c) = SqDist(g.nodes[m], c) /\ n <= m

EdgeIdx(g, u, v) == {i \in DOMAIN g.edges : g.edges[i].u = u /\ g.edges[i].v = v}
\* networkx weight function for weight="travel_time" on a multigraph: the
\* minimum over the parallel edges, an edge without the attribute counts 1
EdgeWeight(e) == IF e.travel_time = NoAttr THEN 1 ELSE e.travel_time
PairWeight(g, u, v) ==
    LET ws == {EdgeWeight(g.edges[i]) : i \in EdgeIdx(g, u, v)}
    IN  CHOOSE w \in ws : \A x \in ws : w <= x

SimplePaths(g, s, t) ==
    {p \in UNION {[1..n -> Nodes(g)] : n \in 1..Cardinality(Nodes(g))} :
        /\ p[1] = s /\ p[Len(p)] = t
        /\ \A i, j \in DOMAIN p : i # j => p[i] # p[j]
        /\ \A i \in 1..(Len(p) - 1) : EdgeIdx(g, p[i], p[i + 1]) # {}}

RECURSIVE PathCost(_, _, _)
PathCost(g, p, i) ==
    IF i >= Len(p) THEN 0
    ELSE PairWeight(g, p[i], p[i + 1]) + PathCost(g, p, i + 1)

\* the paths nx.shortest_path may return: the minimum-weight ones
MinPaths(g, s, t) ==
    {p \in SimplePaths(g, s, t) :
        \A q \in SimplePaths(g, s, t) : PathCost(g, p, 1) <= PathCost(g, q, 1)}

\* variant: the last parallel edge instead of the one with key 0
LastKeyAttr(g, u, v, attr) ==
    LET es == EdgeIdx(g, u, v)
    IN  IF es = {} THEN NoAttr
        ELSE LET e == g.edges[CHOOSE i \in es : \A j \in es : j <= i]
             IN  IF attr = "length" THEN e.length ELSE e.travel_time

\* graph[u][v][0][attr]: the value, or NoAttr where the code raises KeyError
\* (no node, no edge, no key 0, or no such attribute)
Key0Attr(g, u, v, attr) ==
    LET es == {i \in EdgeIdx(g, u, v) : g.edges[i].key = 0}
    IN  IF es = {} THEN NoAttr
        ELSE LET e == g.edges[CHOOSE i \in es : TRUE]
             IN  IF attr = "length" THEN e.length ELSE e.travel_time

\* sum(float(graph[path[i]][path[i+1]][0][attr]) for i in range(len(path)-1))
\* ok is FALSE where an element raises KeyError
RECURSIVE SumAlong(_, _, _, _)
SumAlong(g, p, attr, i) ==
    IF i >= Len(p) THEN [ok |-> TRUE, sum |-> 0]
    ELSE LET a == Key0Attr(g, p[i], p[i + 1], attr)
             r == SumAlong(g, p, attr, i + 1)
         IN  IF a = NoAttr \/ ~r.ok THEN [ok |-> FALSE, sum |-> 0]
             ELSE [ok |-> TRUE, sum |-> a + r.sum]

\* ------------------------------------------------------------------ state
VARIABLES
    graph,        \* route_service.graph
    last_update,  \* route_service.last_update, a clock reading
    cache_file,   \* contents of bengaluru_graph.pickle
    graph_lock,   \* holder of route_service.graph_lock, or "free"
    nn_cache,     \* lru_cache of get_nearest_node, least recently used first
    pcMain,       \* main thread: "init", "in_load", "loaded", "serving", "crashed"
    ref,          \* refresher thread: pc and the tick its sleep ends
    lg,           \* the running load_graph call
    req,          \* the request the handler thread is working on; route is
                  \* what find_shortest_path came to ("pending" before),
                  \* swapped (history) whether self.graph was rebound
                  \* between two of the handler's reads of it
    resp,         \* the response it returned
    served,       \* requests completed
    lastRet,      \* history: last node get_nearest_node returned per key
    nnLog         \* history: the latest get_nearest_node call

vars == <<graph, last_update, cache_file, graph_lock, nn_cache, pcMain,
          ref, lg, req, resp, served, lastRet, nnLog>>

storeVars == <<graph, last_update, cache_file>>
handlerVars == <<nn_cache, req, resp, served, lastRet, nnLog>>

\* A cache file left by an earlier run holds a graph that was annotated
\* before it was dumped.
InitialFiles == {FileAbsent, FileCorrupt, FullyAnnotated(PlaceGood)}

\* history kept with the call: entry is the graph at entry, exit how the
\* call ended, loadTried what became of the cache load, dlCalls the number
\* of download_and_cache_graph calls, wrote whether a dump completed,
\* prevExit how the call before ended, gap the ticks between the return of
\* that call and the should_update_graph test of this call, since the ticks
\* since the latest return
IdleLg == [pc |-> "idle", caller |-> "none", site |-> "none", i |-> 0,
           entry |-> NoGraph, exit |-> "none", loadTried |-> "none",
           dlCalls |-> 0, wrote |-> FALSE, prevExit |-> "none", gap |-> 0,
           since |-> 0]
IdleReq == [pc |-> "idle", hasOrigin |-> FALSE, origin |-> <<0, 0>>,
            destination |-> <<0, 0>>, origin_node |-> NoNode,
            dest_node |-> NoNode, path |-> <<>>, route |-> "pending",
            path_coords |-> <<>>, total_distance |-> 0, ranMap |-> FALSE,
            ranStats |-> FALSE, exc |-> "none", nresp |-> 0,
            swapped |-> FALSE]
NoResp == [status |-> 0, error |-> "", path |-> <<>>, total_distance |-> 0,
           estimated_time |-> 0]
NoLog == [key |-> <<0, 0>>, node |-> NoNode, searched |-> FALSE,
          prev |-> NoNode, cached |-> FALSE]

Init ==
    /\ graph = NoGraph
    /\ last_update = NoTime
    /\ cache_file \in InitialFiles
    /\ graph_lock = "free"
    /\ nn_cache = <<>>
    /\ pcMain = "init"
    /\ ref = [pc |-> "off", wakeAt |-> 0]
    /\ lg = IdleLg
    /\ req = IdleReq
    /\ resp = NoResp
    /\ served = 0
    /\ lastRet = [c \in Coords |-> NoNode]
    /\ nnLog = NoLog

\* ------------------------------------------------------------------ clock
Max(a, b) == IF a >= b THEN a ELSE b

\* datetime.now(), in ticks.  Clock readings are kept relative to the
\* present: the present always reads MaxTicks and a tick moves every stored
\* reading one tick into the past, down to 0, which keeps every difference
\* that should_update_graph and the sleep can tell apart.
now == MaxTicks

Tick ==
    /\ last_update' = IF last_update = NoTime THEN NoTime
                      ELSE Max(last_update - 1, 0)
    /\ ref' = [ref EXCEPT !.wakeAt = Max(ref.wakeAt - 1, 0)]
    /\ lg' = IF /\ \/ (lg.pc = "idle" /\ lg.exit # "none")
                    \/ (lg.pc = "check" /\ lg.prevExit # "none")
                 /\ lg.since < MaxTicks
               THEN [lg EXCEPT !.since = lg.since + 1] ELSE lg
    /\ UNCHANGED <<graph, cache_file, graph_lock, pcMain>>
    /\ UNCHANGED handlerVars

\* ------------------------------------------------------------- load_graph
\* `self.graph = ...` binds the attribute to a new object.  The handler
\* reads route_service.graph afresh in nx.shortest_path, in create_route_map
\* and in each sum of route_stats, without the lock: a request that has its
\* path and has reads still to make sees the new object from here on.
Rebind(r) ==
    IF r.pc \in {"map", "dist", "time"} THEN [r EXCEPT !.swapped = TRUE] ELSE r

\* should_update_graph()
should_update_graph ==
    IF Falsy(graph) \/ last_update = NoTime THEN TRUE
    ELSE (now - last_update) * TickSeconds > update_interval

\* variant: periodic_graph_update without `while True`, the thread ends after
\* its first load_graph call
ReturnToOnce(t, raised) ==
    /\ graph_lock' = "free"
    /\ IF t = "main"
         THEN /\ pcMain' = IF raised THEN "crashed" ELSE "loaded"
              /\ ref' = ref
         ELSE /\ pcMain' = pcMain
              /\ ref' = [ref EXCEPT !.pc = "dead"]

\* load_graph returns to (or raises into) its caller t and releases the
\* lock; an exception that reaches periodic_graph_update ends the thread,
\* a normal return takes it back to time.sleep
ReturnTo(t, raised) ==
    /\ graph_lock' = "free"
    /\ IF t = "main"
         THEN /\ pcMain' = IF raised THEN "crashed" ELSE "loaded"
              /\ ref' = ref
         ELSE /\ pcMain' = pcMain
              /\ ref' = IF raised THEN [ref EXCEPT !.pc = "dead"]
                        ELSE [pc |-> "sleep", wakeAt |-> now + 1]

\* variant: load_graph without `with self.graph_lock:`
LoadGraphEnterNoLock(t) ==
    /\ lg.pc = "idle"
    /\ \/ t = "main" /\ pcMain = "init"
       \/ t = "refresher" /\ ref.pc = "call"
    /\ graph_lock' = graph_lock
    /\ lg' = [IdleLg EXCEPT !.pc = "check", !.caller = t, !.entry = graph,
                            !.exit = "running", !.prevExit = lg.exit,
                            !.since = lg.since]
    /\ ref' = IF t = "refresher" THEN [ref EXCEPT !.pc = "in_load"] ELSE ref
    /\ pcMain' = IF t = "main" THEN "in_load" ELSE pcMain
    /\ UNCHANGED <<graph, last_update, cache_file>>
    /\ UNCHANGED handlerVars

\* load_graph is called (by RouteService.__init__ on the main thread, by
\* periodic_graph_update on the refresher) and enters `with self.graph_lock:`
LoadGraphEnter(t) ==
    /\ lg.pc = "idle"
    /\ graph_lock = "free"
    /\ \/ t = "main" /\ pcMain = "init"
       \/ t = "refresher" /\ ref.pc = "call"
    /\ graph_lock' = t
    /\ lg' = [IdleLg EXCEPT !.pc = "check", !.caller = t, !.entry = graph,
                            !.exit = "running", !.prevExit = lg.exit,
                            !.since = lg.since]
    /\ ref' = IF t = "refresher" THEN [ref EXCEPT !.pc = "in_load"] ELSE ref
    /\ pcMain' = IF t = "main" THEN "in_load" ELSE pcMain
    /\ UNCHANGED <<graph, last_update, cache_file>>
    /\ UNCHANGED handlerVars

\* `if self.should_update_graph():`, and the return when it is false
LoadGraphCheck ==
    /\ lg.pc = "check"
    /\ IF should_update_graph
         THEN /\ lg' = [lg EXCEPT !.pc = "try", !.gap = lg.since, !.since = 0]
              /\ UNCHANGED <<graph_lock, pcMain, ref>>
         ELSE /\ lg' = [lg EXCEPT !.pc = "idle", !.exit = "fresh",
                                  !.gap = lg.since, !.since = 0]
              /\ ReturnTo(lg.caller, FALSE)
    /\ UNCHANGED <<graph, last_update, cache_file>>
    /\ UNCHANGED handlerVars

\* the try block: the cache file exists and is opened and unpickled
LoadFromCache ==
    /\ lg.pc = "try"
    /\ cache_file # FileAbsent
    /\ IF cache_file = FileCorrupt
         THEN /\ lg' = [lg EXCEPT !.pc = "except", !.loadTried = "failed"]
              /\ graph' = graph
              /\ req' = req
         ELSE /\ lg' = [lg EXCEPT !.pc = "stamp", !.loadTried = "ok"]
              /\ graph' = cache_file
              /\ req' = Rebind(req)
    /\ UNCHANGED <<last_update, cache_file, graph_lock, pcMain, ref>>
    /\ UNCHANGED <<nn_cache, resp, served, lastRet, nnLog>>

\* the try block: no cache file, download_and_cache_graph() is called
CallDownload ==
    /\ lg.pc = "try"
    /\ cache_file = FileAbsent
    /\ lg' = [lg EXCEPT !.pc = "place_dl", !.site = "try",
                        !.dlCalls = lg.dlCalls + 1]
    /\ UNCHANGED <<graph, last_update, cache_file, graph_lock, pcMain, ref>>
    /\ UNCHANGED handlerVars

\* self.last_update = datetime.now(), end of the with block
Stamp ==
    /\ lg.pc = "stamp"
    /\ last_update' = now
    /\ lg' = [lg EXCEPT !.pc = "idle", !.exit = "ok"]
    /\ ReturnTo(lg.caller, FALSE)
    /\ UNCHANGED <<graph, cache_file>>
    /\ UNCHANGED handlerVars

\* variant: an except block that only logs
ExceptHandlerLogsOnly ==
    /\ lg.pc = "except"
    /\ lg' = [lg EXCEPT !.pc = "idle", !.exit = "handled"]
    /\ ReturnTo(lg.caller, FALSE)
    /\ UNCHANGED <<graph, last_update, cache_file>>
    /\ UNCHANGED handlerVars

\* the except block of load_graph
ExceptHandler ==
    /\ lg.pc = "except"
    /\ IF Falsy(graph)
         THEN /\ lg' = [lg EXCEPT !.pc = "place_dl", !.site = "except",
                                  !.dlCalls = lg.dlCalls + 1]
              /\ UNCHANGED <<graph_lock, pcMain, ref>>
         ELSE /\ lg' = [lg EXCEPT !.pc = "idle", !.exit = "handled"]
              /\ ReturnTo(lg.caller, FALSE)
    /\ UNCHANGED <<graph, last_update, cache_file>>
    /\ UNCHANGED handlerVars

\* download_and_cache_graph / download_using_bbox return normally to the
\* call site in load_graph
DownloadReturns ==
    IF lg.site = "try"
      THEN /\ lg' = [lg EXCEPT !.pc = "stamp", !.i = 0, !.wrote = TRUE]
           /\ UNCHANGED <<graph_lock, pcMain, ref>>
      ELSE /\ lg' = [lg EXCEPT !.pc = "idle", !.i = 0, !.exit = "retried",
                               !.wrote = TRUE]
           /\ ReturnTo(lg.caller, FALSE)

\* variant: download_using_bbox without its `raise`
DownloadRaisesSwallowed == DownloadReturns

\* the exception download_using_bbox re-raises reaches the call site: the
\* one in the try block is caught, the one in the except block leaves
\* load_graph
DownloadRaises ==
    IF lg.site = "try"
      THEN /\ lg' = [lg EXCEPT !.pc = "except", !.i = 0]
           /\ UNCHANGED <<graph_lock, pcMain, ref>>
      ELSE /\ lg' = [lg EXCEPT !.pc = "idle", !.i = 0, !.exit = "raised"]
           /\ ReturnTo(lg.caller, TRUE)

\* self.graph = ox.graph.graph_from_place(...)
PlaceDownload ==
    /\ lg.pc = "place_dl"
    /\ \E g \in PlaceGraphs : graph' = g
    /\ lg' = [lg EXCEPT !.pc = "place_annot", !.i = 1]
    /\ req' = Rebind(req)
    /\ UNCHANGED <<last_update, cache_file, graph_lock, pcMain, ref>>
    /\ UNCHANGED <<nn_cache, resp, served, lastRet, nnLog>>

\* graph_from_place raises: the except block calls download_using_bbox
PlaceDownloadFails ==
    /\ lg.pc = "place_dl"
    /\ lg' = [lg EXCEPT !.pc = "bbox_dl"]
    /\ UNCHANGED <<graph, last_update, cache_file, graph_lock, pcMain, ref>>
    /\ UNCHANGED handlerVars

\* one iteration of the annotation loop of download_and_cache_graph, on the
\* graph object self.graph names
PlaceAnnotate ==
    /\ lg.pc = "place_annot"
    /\ LET r == AnnotateEdge(graph.edges[lg.i])
       IN  /\ graph' = [graph EXCEPT !.edges[lg.i] = r.edge]
           /\ lg' = IF ~r.ok THEN [lg EXCEPT !.pc = "bbox_dl", !.i = 0]
                    ELSE IF lg.i = Len(graph.edges)
                      THEN [lg EXCEPT !.pc = "place_persist", !.i = 0]
                    ELSE [lg EXCEPT !.i = lg.i + 1]
    /\ UNCHANGED <<last_update, cache_file, graph_lock, pcMain, ref>>
    /\ UNCHANGED handlerVars

\* variant: download_and_cache_graph without the dump
PlacePersistNoDump ==
    /\ lg.pc = "place_persist"
    /\ cache_file' = cache_file
    /\ DownloadReturns
    /\ UNCHANGED <<graph, last_update>>
    /\ UNCHANGED handlerVars

\* open(cache_file, "wb") and pickle.dump succeed
PlacePersist ==
    /\ lg.pc = "place_persist"
    /\ cache_file' = graph
    /\ DownloadReturns
    /\ UNCHANGED <<graph, last_update>>
    /\ UNCHANGED handlerVars

\* open fails (file untouched) or the dump fails (file truncated)
PlacePersistFails ==
    /\ lg.pc = "place_persist"
    /\ cache_file' \in {cache_file, FileCorrupt}
    /\ lg' = [lg EXCEPT !.pc = "bbox_dl"]
    /\ UNCHANGED <<graph, last_update, graph_lock, pcMain, ref>>
    /\ UNCHANGED handlerVars

\* self.graph = ox.graph.graph_from_bbox(...)
BboxDownload ==
    /\ lg.pc = "bbox_dl"
    /\ \E g \in BboxGraphs : graph' = g
    /\ lg' = [lg EXCEPT !.pc = "bbox_annot", !.i = 1]
    /\ req' = Rebind(req)
    /\ UNCHANGED <<last_update, cache_file, graph_lock, pcMain, ref>>
    /\ UNCHANGED <<nn_cache, resp, served, lastRet, nnLog>>

\* graph_from_bbox raises: logged and re-raised
BboxDownloadFails ==
    /\ lg.pc = "bbox_dl"
    /\ DownloadRaises
    /\ UNCHANGED <<graph, last_update, cache_file>>
    /\ UNCHANGED handlerVars

\* one iteration of the annotation loop of download_using_bbox
BboxAnnotate ==
    /\ lg.pc = "bbox_annot"
    /\ LET r == AnnotateEdge(graph.edges[lg.i])
       IN  /\ graph' = [graph EXCEPT !.edges[lg.i] = r.edge]
           /\ IF ~r.ok THEN DownloadRaises
              ELSE /\ lg' = IF lg.i = Len(graph.edges)
                              THEN [lg EXCEPT !.pc = "bbox_persist", !.i = 0]
                              ELSE [lg EXCEPT !.i = lg.i + 1]
                   /\ UNCHANGED <<graph_lock, pcMain, ref>>
    /\ UNCHANGED <<last_update, cache_file>>
    /\ UNCHANGED handlerVars

BboxPersist ==
    /\ lg.pc = "bbox_persist"
    /\ cache_file' = graph
    /\ DownloadReturns
    /\ UNCHANGED <<graph, last_update>>
    /\ UNCHANGED handlerVars

BboxPersistFails ==
    /\ lg.pc = "bbox_persist"
    /\ cache_file' \in {cache_file, FileCorrupt}
    /\ DownloadRaises
    /\ UNCHANGED <<graph, last_update>>
    /\ UNCHANGED handlerVars

\* ------------------------------------------------- main thread, refresher
\* update_thread.start(); app.run(): the refresher enters its first sleep
\* and requests are accepted
StartRefresher ==
    /\ pcMain = "loaded"
    /\ pcMain' = "serving"
    /\ ref' = [pc |-> "sleep", wakeAt |-> now + 1]
    /\ UNCHANGED <<graph, last_update, cache_file, graph_lock, lg>>
    /\ UNCHANGED handlerVars

\* time.sleep(route_service.update_interval) is over
RefresherWakes ==
    /\ ref.pc = "sleep"
    /\ now >= ref.wakeAt
    /\ ref' = [ref EXCEPT !.pc = "call"]
    /\ UNCHANGED <<graph, last_update, cache_file, graph_lock, pcMain, lg>>
    /\ UNCHANGED handlerVars

\* ------------------------------------------------------ get_nearest_node
CacheIdx(cache, c) == {i \in DOMAIN cache : cache[i].key = c}
Without(cache, i) == SubSeq(cache, 1, i - 1) \o SubSeq(cache, i + 1, Len(cache))

\* variant: no memoisation, every call searches and stores
get_nearest_node_unmemoised(cache, g, c) ==
    IF Falsy(g)
      THEN [ok |-> FALSE, node |-> NoNode, searched |-> TRUE, cache |-> cache]
      ELSE LET n == NearestNode(g, c)
               rest == SelectSeq(cache, LAMBDA x : x.key # c)
               kept == IF Len(rest) >= maxsize THEN Tail(rest) ELSE rest
           IN  [ok |-> TRUE, node |-> n, searched |-> TRUE,
                cache |-> Append(kept, [key |-> c, val |-> n])]

\* get_nearest_node(lat, lng) under lru_cache(maxsize): a hit returns the
\* stored node and makes the entry the most recent one; a miss calls
\* ox.nearest_nodes on the graph g it reads, stores the result and evicts
\* the least recently used entry of a full table; a call that raises stores
\* nothing.
get_nearest_node(cache, g, c) ==
    IF CacheIdx(cache, c) # {}
      THEN LET i == CHOOSE j \in CacheIdx(cache, c) : TRUE
           IN  [ok |-> TRUE, node |-> cache[i].val, searched |-> FALSE,
                cache |-> Append(Without(cache, i), cache[i])]
    ELSE IF Falsy(g)
      THEN [ok |-> FALSE, node |-> NoNode, searched |-> TRUE, cache |-> cache]
    ELSE LET n == NearestNode(g, c)
             kept == IF Len(cache) >= maxsize THEN Tail(cache) ELSE cache
         IN  [ok |-> TRUE, node |-> n, searched |-> TRUE,
              cache |-> Append(kept, [key |-> c, val |-> n])]

\* ---------------------------------------------------- find_shortest_path
\* nx.shortest_path(graph, s, t, weight="travel_time"): the outcomes
nx_shortest_path(g, s, t) ==
    IF ~IsGraph(g) THEN {[kind |-> "AttributeError", path |-> <<>>]}
    ELSE IF s \notin Nodes(g) \/ t \notin Nodes(g)
      THEN {[kind |-> "NodeNotFound", path |-> <<>>]}
    ELSE IF MinPaths(g, s, t) = {}
      THEN {[kind |-> "NetworkXNoPath", path |-> <<>>]}
    ELSE {[kind |-> "path", path |-> p] : p \in MinPaths(g, s, t)}

\* except (nx.NetworkXNoPath, nx.NodeNotFound) in find_shortest_path
RouteFinderCatches(kind) == kind \in {"NetworkXNoPath", "NodeNotFound"}

\* variant: a test that lets None through
NotPathEmptyOnly(found, path) == found /\ Len(path) = 0

\* `if not path:` of the handler and of create_route_map
NotPath(found, path) == ~found \/ Len(path) = 0

\* variant: a handler that catches ValueError only
HandlerCatchesValueError(kind) == kind = "ValueError"

\* `except Exception` at the handler boundary
HandlerCatches(kind) == TRUE

\* ------------------------------------------------- POST /shortest-path
NoPathMessage == "No path found between the given points"
MapErrorMessage == "Error creating map visualization"

Bodies ==
    {[hasOrigin |-> TRUE, origin |-> o, destination |-> d] : o, d \in Coords}
    \cup {[hasOrigin |-> FALSE, origin |-> <<0, 0>>, destination |-> d] :
            d \in {OceanCoord}}

\* return jsonify(...), status
Reply(r, status, error) ==
    /\ req' = [r EXCEPT !.pc = "done", !.nresp = r.nresp + 1]
    /\ resp' = [NoResp EXCEPT !.status = status, !.error = error]

\* an exception of the given kind is raised inside the handler's try block
Raise(r, kind) ==
    IF HandlerCatches(kind)
      THEN Reply([r EXCEPT !.exc = kind], 500, kind)
      ELSE /\ req' = [r EXCEPT !.pc = "done", !.exc = kind]
           /\ resp' = NoResp

\* data = request.json; origin = tuple(data["origin"]); destination = ...
Receive(body) ==
    /\ pcMain = "serving"
    /\ req.pc = "idle"
    /\ served < MaxRequests
    /\ LET r == [req EXCEPT !.hasOrigin = body.hasOrigin,
                            !.origin = body.origin,
                            !.destination = body.destination]
       IN  IF ~body.hasOrigin
             THEN Raise(r, "KeyError")
             ELSE /\ req' = [r EXCEPT !.pc = "nn_o"]
                  /\ resp' = resp
    /\ UNCHANGED <<nn_cache, served, lastRet, nnLog>>
    /\ UNCHANGED <<graph, last_update, cache_file, graph_lock, pcMain, ref, lg>>

\* the history of one get_nearest_node call
LogOf(c, r) ==
    [key |-> c, node |-> r.node, searched |-> r.searched,
     prev |-> lastRet[c], cached |-> CacheIdx(nn_cache, c) # {}]

\* origin_node = self.get_nearest_node(*origin)
NearestOrigin ==
    /\ req.pc = "nn_o"
    /\ LET r == get_nearest_node(nn_cache, graph, req.origin)
       IN  /\ nn_cache' = r.cache
           /\ IF r.ok
                THEN /\ req' = [req EXCEPT !.pc = "nn_d", !.origin_node = r.node]
                     /\ resp' = resp
                     /\ lastRet' = [lastRet EXCEPT ![req.origin] = r.node]
                     /\ nnLog' = LogOf(req.origin, r)
                ELSE /\ Raise(req, "AttributeError")
                     /\ UNCHANGED <<lastRet, nnLog>>
    /\ UNCHANGED served
    /\ UNCHANGED <<graph, last_update, cache_file, graph_lock, pcMain, ref, lg>>

\* dest_node = self.get_nearest_node(*destination)
NearestDest ==
    /\ req.pc = "nn_d"
    /\ LET r == get_nearest_node(nn_cache, graph, req.destination)
       IN  /\ nn_cache' = r.cache
           /\ IF r.ok
                THEN /\ req' = [req EXCEPT !.pc = "search", !.dest_node = r.node]
                     /\ resp' = resp
                     /\ lastRet' = [lastRet EXCEPT ![req.destination] = r.node]
                     /\ nnLog' = LogOf(req.destination, r)
                ELSE /\ Raise(req, "AttributeError")
                     /\ UNCHANGED <<lastRet, nnLog>>
    /\ UNCHANGED served
    /\ UNCHANGED <<graph, last_update, cache_file, graph_lock, pcMain, ref, lg>>

\* path = nx.shortest_path(...) with the except clause of
\* find_shortest_path, then `if not path: return ..., 404` of the handler
Search ==
    /\ req.pc = "search"
    /\ \E out \in nx_shortest_path(graph, req.origin_node, req.dest_node) :
         IF out.kind # "path" /\ ~RouteFinderCatches(out.kind)
           THEN Raise(req, out.kind)
           ELSE LET r == [req EXCEPT !.route = out.kind, !.path = out.path]
                IN  IF NotPath(r.route = "path", r.path)
                      THEN Reply(r, 404, NoPathMessage)
                      ELSE /\ req' = [r EXCEPT !.pc = "map"]
                           /\ resp' = resp
    /\ UNCHANGED <<nn_cache, served, lastRet, nnLog>>
    /\ UNCHANGED <<graph, last_update, cache_file, graph_lock, pcMain, ref, lg>>

\* create_route_map(origin, path): (None, None) for an empty path or when
\* a node lookup raises, else the map and the coordinates of the path; then
\* `if not map_html: return ..., 500` of the handler
create_route_map(g, found, path) ==
    IF NotPath(found, path) THEN [ok |-> FALSE, coords |-> <<>>]
    ELSE IF ~IsGraph(g) \/ \E i \in DOMAIN path : path[i] \notin Nodes(g)
      THEN [ok |-> FALSE, coords |-> <<>>]
    ELSE [ok |-> TRUE, coords |-> [i \in DOMAIN path |-> g.nodes[path[i]]]]

Render ==
    /\ req.pc = "map"
    /\ LET m == create_route_map(graph, req.route = "path", req.path)
           r == [req EXCEPT !.ranMap = TRUE, !.path_coords = m.coords]
       IN  IF ~m.ok
             THEN Reply(r, 500, MapErrorMessage)
             ELSE /\ req' = [r EXCEPT !.pc = "dist"]
                  /\ resp' = resp
    /\ UNCHANGED <<nn_cache, served, lastRet, nnLog>>
    /\ UNCHANGED <<graph, last_update, cache_file, graph_lock, pcMain, ref, lg>>

\* one of the two sums of route_stats over the graph g read for it
route_sum(g, path, attr) ==
    IF ~IsGraph(g) THEN [ok |-> FALSE, sum |-> 0]
    ELSE SumAlong(g, path, attr, 1)

\* "total_distance": sum(... ["length"] ...)
StatsDistance ==
    /\ req.pc = "dist"
    /\ LET s == route_sum(graph, req.path, "length")
           r == [req EXCEPT !.ranStats = TRUE]
       IN  IF ~s.ok
             THEN Raise(r, "KeyError")
             ELSE /\ req' = [r EXCEPT !.pc = "time", !.total_distance = s.sum]
                  /\ resp' = resp
    /\ UNCHANGED <<nn_cache, served, lastRet, nnLog>>
    /\ UNCHANGED <<graph, last_update, cache_file, graph_lock, pcMain, ref, lg>>

\* "estimated_time": sum(... ["travel_time"] ...) and the 200 response
StatsTime ==
    /\ req.pc = "time"
    /\ LET s == route_sum(graph, req.path, "travel_time")
       IN  IF ~s.ok
             THEN Raise(req, "KeyError")
             ELSE /\ req' = [req EXCEPT !.pc = "done", !.nresp = req.nresp + 1]
                  /\ resp' = [status |-> 200, error |-> "",
                              path |-> req.path_coords,
                              total_distance |-> req.total_distance,
                              estimated_time |-> s.sum]
    /\ UNCHANGED <<nn_cache, served, lastRet, nnLog>>
    /\ UNCHANGED <<graph, last_update, cache_file, graph_lock, pcMain, ref, lg>>

\* the handler thread is free for the next request
Finish ==
    /\ req.pc = "done"
    /\ req' = IdleReq
    /\ resp' = NoResp
    /\ nnLog' = NoLog
    /\ served' = served + 1
    /\ UNCHANGED <<nn_cache, lastRet>>
    /\ UNCHANGED <<graph, last_update, cache_file, graph_lock, pcMain, ref, lg>>

\* ------------------------------------------------------------ specification
Next ==
    \/ Tick
    \/ \E t \in {"main", "refresher"} : LoadGraphEnter(t)
    \/ LoadGraphCheck
    \/ LoadFromCache
    \/ CallDownload
    \/ Stamp
    \/ ExceptHandler
    \/ PlaceDownload
    \/ PlaceDownloadFails
    \/ PlaceAnnotate
    \/ PlacePersist
    \/ PlacePersistFails
    \/ BboxDownload
    \/ BboxDownloadFails
    \/ BboxAnnotate
    \/ BboxPersist
    \/ BboxPersistFails
    \/ StartRefresher
    \/ RefresherWakes
    \/ \E body \in Bodies : Receive(body)
    \/ NearestOrigin
    \/ NearestDest
    \/ Search
    \/ Render
    \/ StatsDistance
    \/ StatsTime
    \/ Finish

Spec == Init /\ [][Next]_vars

\* The steps of a running load_graph call, whoever called it.
LoadGraphStep ==
    \/ LoadGraphCheck
    \/ LoadFromCache
    \/ CallDownload
    \/ Stamp
    \/ ExceptHandler
    \/ PlaceDownload
    \/ PlaceDownloadFails
    \/ PlaceAnnotate
    \/ PlacePersist
    \/ PlacePersistFails
    \/ BboxDownload
    \/ BboxDownloadFails
    \/ BboxAnnotate
    \/ BboxPersist
    \/ BboxPersistFails

\* The refresher is a daemon thread the interpreter keeps scheduling: time
\* passes, a sleep that is over returns, the thread then calls load_graph
\* (the lock is free once the call before has returned), and a running
\* load_graph call makes its next step (file reads and downloads terminate).
LiveSpec ==
    /\ Spec
    /\ WF_vars(Tick)
    /\ WF_vars(RefresherWakes)
    /\ WF_vars(LoadGraphEnter("refresher"))
    /\ WF_vars(LoadGraphStep)

\* ------------------------------------------------------------- properties
RouteNone(r) == r.route \in {"NetworkXNoPath", "NodeNotFound"}
Answered == req.pc = "done"

\* C1: whenever find_shortest_path returns a path, its first node is the
\* nearest node of the current graph to origin and its last node the nearest
\* node of the current graph to destination; otherwise it returns None.
C1_EndpointsAreNearest ==
    [][(req.pc = "search" /\ req'.pc # "search") =>
         \/ /\ req'.route = "path"
            /\ req'.path[1] = NearestNode(graph, req.origin)
            /\ req'.path[Len(req'.path)] = NearestNode(graph, req.destination)
         \/ RouteNone(req') /\ req'.exc = "none"]_vars

\* the sum of an attribute of the key-0 edges over the consecutive node
\* pairs of a path, stated over the set of pairs
Key0Edge(g, u, v) ==
    CHOOSE i \in DOMAIN g.edges :
        g.edges[i].u = u /\ g.edges[i].v = v /\ g.edges[i].key = 0
RECURSIVE SumOverPairs(_, _, _, _)
SumOverPairs(g, p, attr, S) ==
    IF S = {} THEN 0
    ELSE LET i == CHOOSE j \in S : TRUE
             e == g.edges[Key0Edge(g, p[i], p[i + 1])]
         IN  (IF attr = "length" THEN e.length ELSE e.travel_time)
             + SumOverPairs(g, p, attr, S \ {i})
PathSum(g, p, attr) == SumOverPairs(g, p, attr, 1..(Len(p) - 1))

\* C2: in every 200 response total_distance is the sum of length and
\* estimated_time the sum of travel_time over the consecutive node pairs of
\* the returned path, taking the edge with key 0 between each pair (in the
\* graph the handler read for that sum).
C2_StatsAreSums ==
    [][/\ (req.pc = "dist" /\ req'.pc = "time") =>
              req'.total_distance = PathSum(graph, req.path, "length")
       /\ (req.pc = "time" /\ resp'.status = 200) =>
              /\ resp'.total_distance = req.total_distance
              /\ resp'.estimated_time = PathSum(graph, req.path, "travel_time")
      ]_vars
\* a 200 response for a path of two edges, the first with a parallel edge
C2_Witness ==
    /\ Answered /\ resp.status = 200
    /\ req.path = <<1, 2, 3>>
    /\ resp.total_distance = 750 /\ resp.estimated_time = 90

\* C3: when the route finder yields no path (nodes disconnected or a node
\* not in the graph) the response is 404 with the fixed message, and neither
\* the map renderer nor the stats computation has run for the request.
C3_NoPathIs404 ==
    RouteNone(req) =>
        /\ Answered
        /\ resp.status = 404 /\ resp.error = NoPathMessage
        /\ ~req.ranMap /\ ~req.ranStats
C3_Witness ==
    /\ Answered /\ req.route = "NetworkXNoPath" /\ resp.status = 404

\* both coordinates of the request lie far from every node
OceanPair(r) == r.hasOrigin /\ r.origin = OceanCoord /\ r.destination = OceanCoord

\* C4 as claimed: a request whose coordinate pair lies outside the graph's
\* region is answered 404 with the fixed "No path found" message.
C4_OceanIs404 ==
    (Answered /\ OceanPair(req)) =>
        resp.status = 404 /\ resp.error = NoPathMessage
\* C4 as amended: such a request is resolved to graph nodes like any other
\* and is answered 404 exactly when the route finder yields no path between
\* the resolved nodes; otherwise the answer is 200 or 500.
C4_OceanIsSnapped ==
    (Answered /\ OceanPair(req)) =>
        /\ req.origin_node # NoNode /\ req.dest_node # NoNode
        /\ (resp.status = 404) <=> RouteNone(req)
        /\ resp.status \in {200, 404, 500}
C4_Witness ==
    /\ Answered /\ OceanPair(req) /\ resp.status = 200
    /\ req.origin_node = NearestNode(graph, OceanCoord)

\* C5: with a graph loaded, a request with origin == destination is answered
\* 200 with a path of exactly one coordinate and zero distance and time.
C5_SamePointIsSingleNode ==
    (Answered /\ req.hasOrigin /\ req.origin = req.destination
        /\ ~Falsy(graph)) =>
        /\ resp.status = 200
        /\ Len(resp.path) = 1
        /\ resp.total_distance = 0 /\ resp.estimated_time = 0

\* C6: every request ends with exactly one response, of status 200, 404 or
\* 500, and an exception raised while handling it gives 500 with a message.
C6_OneResponse ==
    /\ Answered =>
          /\ req.nresp = 1
          /\ resp.status \in {200, 404, 500}
          /\ req.exc # "none" => (resp.status = 500 /\ resp.error # "")
    /\ ~Answered => (req.nresp = 0 /\ resp = NoResp)
\* the edge lookup of the stats raised, and a request without origin did
C6_Witness ==
    /\ Answered /\ req.exc = "KeyError" /\ req.ranStats /\ resp.status = 500
    /\ served >= 1

StartupOver == pcMain \in {"loaded", "serving", "crashed"}

\* C7 as claimed: when startup ends with every acquisition path failed (no
\* cache file, no graph in memory), the service has started all the same.
C7_StartsWithoutGraph ==
    (StartupOver /\ ~IsGraph(graph) /\ cache_file = FileAbsent) =>
        pcMain \in {"loaded", "serving"}
\* C7 as amended: when every acquisition path fails at first startup, so
\* that no graph is in memory, the exception leaves RouteService(): the
\* service does not start, the refresher does not start and no request is
\* handled.
C7_NoGraphNoService ==
    /\ (StartupOver /\ ~IsGraph(graph)) => pcMain = "crashed"
    /\ pcMain = "crashed" =>
          /\ ref.pc = "off" /\ req = IdleReq /\ served = 0
          /\ lg.pc = "idle" /\ lg.exit = "raised" /\ graph_lock = "free"
C7_Witness ==
    /\ pcMain = "crashed" /\ ~IsGraph(graph) /\ cache_file = FileAbsent

\* C8: when a load_graph call fails on every acquisition path it tried, the
\* graph in memory after the call is the graph in memory before the call.
C8_FailedRefreshKeepsGraph ==
    (lg.pc = "idle" /\ lg.exit \in {"handled", "raised"}) => graph = lg.entry

\* C9 as claimed: a get_nearest_node call with a (lat, lng) it was called
\* with before returns the same node and does not run the search.
C9_SecondCallHits ==
    nnLog.prev # NoNode => (nnLog.node = nnLog.prev /\ ~nnLog.searched)
\* C9 as amended: a get_nearest_node call with a (lat, lng) whose entry is
\* still in the memo table returns the node of the earlier call and does not
\* run the search, whatever the graph in memory is by then.
C9_CachedCallHits ==
    nnLog.cached =>
        /\ nnLog.prev # NoNode
        /\ nnLog.node = nnLog.prev
        /\ ~nnLog.searched
\* a hit after the graph was replaced: the node is not the nearest any more
C9_Witness ==
    /\ nnLog.cached /\ ~nnLog.searched
    /\ IsGraph(graph) /\ nnLog.node # NearestNode(graph, nnLog.key)

\* C10: whenever a request handler can read the graph in memory, every edge
\* of that graph carries a numeric travel_time.
C10_VisibleGraphAnnotated ==
    (pcMain = "serving" /\ IsGraph(graph)) =>
        \A i \in DOMAIN graph.edges : graph.edges[i].travel_time # NoAttr

\* C11: every write to the graph in memory, to last_update and to the cache
\* file is made by a thread that holds graph_lock, and the main thread and
\* the refresher are never inside load_graph at the same time.
C11_WritesUnderLock ==
    /\ [](lg.pc # "idle" => (graph_lock = lg.caller /\ lg.caller # "none"))
    /\ [](~(pcMain = "in_load" /\ ref.pc = "in_load"))
    /\ [][(\/ graph' # graph
           \/ cache_file' # cache_file
           \/ (last_update' # last_update /\ last_update' = now)) =>
              (graph_lock # "free" /\ graph_lock = lg.caller)]_vars
\* the refresher holds the lock and has replaced the graph in memory
C11_Witness ==
    /\ graph_lock = "refresher" /\ lg.caller = "refresher"
    /\ graph # lg.entry /\ lg.pc = "bbox_persist"

\* a load_graph call that found the graph absent or stale has ended
StaleCallOver ==
    lg.pc = "idle" /\ lg.exit \in {"ok", "handled", "retried", "raised"}
\* a load_graph call has ended with a graph acquired
RefreshDone == lg.pc = "idle" /\ lg.exit \in {"ok", "retried"}

\* C12 as claimed: a load_graph call that finds the graph absent or stale
\* attempts a download whenever the cache file is absent or loading it fails.
C12_DownloadOnAnyCacheFailure ==
    (StaleCallOver /\ lg.loadTried # "ok") => lg.dlCalls >= 1
\* C12 as amended: such a call attempts a download when the cache file is
\* absent, or when loading it fails and no graph is in memory; when loading
\* fails with a graph in memory it downloads nothing and keeps that graph.
C12_DownloadUnlessGraphKept ==
    StaleCallOver =>
        /\ lg.loadTried = "none" => lg.dlCalls >= 1
        /\ (lg.loadTried = "failed" /\ Falsy(lg.entry)) => lg.dlCalls >= 1
        /\ (lg.loadTried = "failed" /\ ~Falsy(lg.entry)) =>
              (lg.dlCalls = 0 /\ lg.exit = "handled" /\ graph = lg.entry)
        /\ lg.loadTried = "ok" => lg.dlCalls = 0
\* a refresh whose cache load failed with a graph in memory
C12_Witness ==
    /\ StaleCallOver /\ lg.caller = "refresher"
    /\ lg.loadTried = "failed" /\ lg.dlCalls = 0 /\ IsGraph(graph)

\* C13 as claimed: every refresh that completes successfully overwrites the
\* cache file with the refreshed graph.
C13_RefreshWritesFile ==
    RefreshDone => (lg.wrote /\ cache_file = graph)
\* C13 as amended: after every refresh that completes successfully the cache
\* file holds the graph in memory; the file is written when the graph was
\* downloaded and is not written when the graph was loaded from it.
C13_FileMatchesGraph ==
    RefreshDone =>
        /\ cache_file = graph
        /\ lg.wrote <=> lg.dlCalls >= 1
        /\ lg.loadTried = "ok" => ~lg.wrote
\* a refresh by the refresher thread that loaded the cache file
C13_Witness ==
    /\ RefreshDone /\ lg.caller = "refresher"
    /\ lg.loadTried = "ok" /\ ~lg.wrote /\ cache_file = graph

\* at the should_update_graph test of the call that has ended, not more than
\* update_interval had passed since the call before returned
WithinInterval == lg.gap * TickSeconds <= update_interval
NoOpCall ==
    /\ lg.exit = "fresh" /\ graph = lg.entry
    /\ lg.loadTried = "none" /\ lg.dlCalls = 0 /\ ~lg.wrote

\* C14: once started, the refresher runs for ever: no exception escaping
\* load_graph ends it, it calls load_graph again and again, and every call
\* returns it to its sleep.
C14_RefresherForever ==
    /\ [](ref.pc # "dead")
    /\ (pcMain = "serving") ~> (ref.pc = "in_load")
    /\ (ref.pc = "in_load") ~> (ref.pc = "sleep")

\* a refresher call whose download failed has returned through the except
\* block and the refresher sleeps again
C14_Witness ==
    /\ ref.pc = "sleep" /\ lg.pc = "idle" /\ lg.caller = "refresher"
    /\ lg.exit = "handled" /\ lg.dlCalls = 1

\* C15: for every 200 response the node path, the coordinates and the two
\* sums are computed from one and the same graph object: self.graph is not
\* rebound between the reads the handler makes for the request.
C15_OneGraphPerResponse ==
    (Answered /\ resp.status = 200) => ~req.swapped

\* C16: after a load_graph call that returned normally with a graph
\* acquired, a further call made before update_interval has passed is a
\* no-op: no cache load, no download, graph, last_update and cache file
\* unchanged.
C16_PromptCallIsNoOp ==
    /\ [](( /\ lg.pc = "idle" /\ lg.prevExit \in {"ok", "retried"}
            /\ ~Falsy(lg.entry) /\ WithinInterval) => NoOpCall)
    /\ [][(lg.pc = "check" /\ lg'.exit = "fresh") =>
              UNCHANGED <<graph, last_update, cache_file>>]_vars

====
